---- MODULE Spec2Model ----
(***************************************************************************)
(* Audio-stream composition engine (src/audio/audiostream.cpp).            *)
(*                                                                         *)
(* Each wrapper class is modelled as its own state machine over its own    *)
(* fields; `unit` names the object a behaviour is about:                   *)
(*   "queue"   QueuingAudioStreamImpl, with its caller threads             *)
(*   "scenario" the same, fed with the documented three-buffer scenario    *)
(*   "anyqueue" the same, over streams whose reads may deliver nothing     *)
(*   "lifetime" the same, from construction to destruction                 *)
(*   "loop"    LoopingAudioStream over a rewindable parent                 *)
(*   "subloop" SubLoopingAudioStream over a seekable parent                *)
(*   "subseek" SubSeekableAudioStream over a seekable parent               *)
(*   "limit"   LimitingAudioStream over any parent                         *)
(*   "convert" convertTimeToStreamPos applied to a time                    *)
(* Positions and counts are in interleaved samples, as in the code.        *)
(***************************************************************************)
EXTENDS Integers, Sequences, FiniteSets, TLC

\* ------------------------------------------------------------------ bounds
\* Number of queueAudioStream calls in a behaviour.
MaxStreams == 2
\* Samples held by one queued stream.
MaxLen == 2
\* Largest numSamples of a QueuingAudioStreamImpl::readBuffer call.
MaxRead == 3
\* Largest small parent of a looping stream, in samples.
MaxParentLen == 3
\* Largest loop count a looping stream is constructed with.
MaxLoops == 3
\* Passes an endlessly looping stream is followed for.
MaxIterations == 4
\* Largest time bound (loop start / end, range start / end, limit), in msec.
MaxMs == 4
\* Largest seekable parent of a sub-range stream, in samples.
MaxSeekableLen == 5
\* Largest numSamples of a sub-range or limiting stream's readBuffer call.
MaxSubRead == 3
\* Largest time handed to convertTimeToStreamPos on its own, in msec.
MaxConvMs == 40
\* readBuffer activations one looping call is followed through.
MaxNesting == 12

VARIABLES
    unit,            \* which object this behaviour is about
    \* --- QueuingAudioStreamImpl fields
    q_queue,         \* _queue: sequence of queued streams, front first
    q_finished,      \* _finished
    q_mutex,         \* _mutex: "free" or the thread holding it
    q_aborted,       \* the process died in assert() / error()
    \* --- thread calling queueAudioStream
    pcP,             \* "idle" | "checked" | "locked"
    pend,            \* the stream being enqueued
    \* --- thread calling readBuffer
    pcC,             \* "idle" | "loop" | "break"
    numSamples,      \* argument of the running readBuffer
    samplesDecoded,  \* local of the running readBuffer
    \* --- thread calling finish
    pcF,             \* "idle" | "locked"
    \* --- thread calling endOfStream
    pcE,             \* "idle" | "locked"
    eosRet,          \* value endOfStream() computed under the lock
    \* --- history
    pushed,          \* number of streams pushed so far (ids are 1..pushed)
    popped,          \* ids popped from the queue, in pop order
    out,             \* id of the stream every delivered sample came from
    rbOut,           \* the same, for the running / last readBuffer call
    rbRet,           \* value the last readBuffer returned
    finishCalled,    \* finish() has taken effect
    enq,             \* length at enqueue time of every stream pushed, by id
    eosSeen,         \* endOfStream() has returned true
    rbSpin,          \* the last loop iteration delivered nothing, popped
                     \* nothing and stayed in the loop
    q_destructed,    \* ~QueuingAudioStreamImpl has run
    destroyed,       \* ids of the streams the queue deleted, in order
    accessedPopped,  \* the queue called into a stream it had popped
    enqDispose,      \* dispose flag at enqueue time of every stream, by id
    eodRet,          \* value the last endOfData() returned
    \* --- LoopingAudioStream fields
    la_loops,               \* _loops
    la_completeIterations,  \* _completeIterations
    la_parent,              \* *_parent: [len, pos] of the rewindable parent
    \* --- history of the looping stream
    la_N,            \* the loop count the constructor was given
    la_startPos,     \* parent position when the constructor returned
    la_faulted,      \* a rewind failed or left the parent at end-of-stream
    la_total,        \* samples delivered since construction
    la_before,       \* la_total when the last readBuffer call began
    la_lastReq,      \* numSamples of the last readBuffer call
    la_lastRet,      \* its return value
    la_depth,        \* readBuffer activations the last call nested
    la_ctor,         \* how the constructor went: "ok" | "rewindFailed" | "atEnd"
    la_afterFail,    \* "none", or a rewind failed in the last call ("failing")
                     \* or in an earlier call ("later")
    la_parentAtFail, \* the parent when the call with the failed rewind returned
    la_diverged,     \* a readBuffer call nests activations without end
    la_aborted,      \* the process died in error()
    \* --- SubLoopingAudioStream fields
    sla_loops,              \* _loops
    sla_completeIterations, \* _completeIterations
    sla_pos,                \* _pos, in samples
    sla_loopStart,          \* _loopStart, in samples
    sla_loopEnd,            \* _loopEnd, in samples
    sla_parent,             \* *_parent: [len, pos] of the seekable parent
    \* --- history of the sub-looping stream
    sla_wrapped,     \* the parent has been sought back to _loopStart
    sla_faulted,     \* a rewind or seek failed, or the parent ended early
    sla_diverged,    \* a readBuffer call recurses without end
    sla_cause,       \* why looping stopped early: "none" | "ctor" (rewind
                     \* failed) | "premature" (parent ended) | "seek" (failed)
    sla_afterFault,  \* "none", or that happened in the last readBuffer call
                     \* ("failing") or in an earlier one ("later")
    sla_aborted,     \* the process died in error()
    sla_prevLast,    \* parent index of the last sample delivered before the last call (-1: none)
    sla_src,         \* parent index of every sample the last call delivered
    sla_lastReq,     \* numSamples of the last readBuffer call
    sla_lastRet,     \* its return value
    \* --- SubSeekableAudioStream fields
    ssa_start,       \* _start, in samples
    ssa_length,      \* _length, in samples
    ssa_pos,         \* _pos, in samples
    ssa_parent,      \* *_parent: [len, pos] of the seekable parent
    ssa_format,      \* [rate, isStereo] of the parent (getRate(), isStereo())
    \* --- history of the sub-range stream
    ssa_sinceSeek,   \* samples delivered since construction or the last seek
    ssa_posBefore,   \* _pos when the last readBuffer call began
    ssa_lastReq,     \* numSamples of the last readBuffer call
    ssa_lastAsk,     \* samples that call requested from the parent
    ssa_lastRet,     \* its return value
    ssa_seekRet,     \* "none", or what the last call, a seek, returned ("true" / "false")
    ssa_prevSeekRet, \* ssa_seekRet as it was before the last call
    ssa_seekPos,     \* the converted position of the last seek (-1: none)
    ssa_parentSeek,  \* the parent's seek in the last seek: "none" (not
                     \* called) | "ok" | "failed"
    ssa_parentBefore, \* the parent when the last seek began
    \* --- LimitingAudioStream fields
    lim_totalSamples,  \* _totalSamples
    lim_samplesRead,   \* _samplesRead
    lim_parent,        \* *_parentStream: [len, pos]
    \* --- history of the limiting stream
    lim_delivered,   \* sum of the values readBuffer returned
    lim_lastReq,     \* numSamples of the last readBuffer call
    lim_lastAsk,     \* samples that call requested from the parent
    lim_lastRet,     \* its return value
    \* --- the last convertTimeToStreamPos(where, rate, isStereo) call
    cv_where,        \* where, in msec (-1: no call yet)
    cv_rate,         \* rate
    cv_isStereo,     \* isStereo
    cv_result        \* the Timestamp returned

qVars == <<q_queue, q_finished, q_mutex, q_aborted, pcP, pend, pcC, numSamples,
           samplesDecoded, pcF, pcE, eosRet, pushed, popped, out, rbOut, rbRet,
           finishCalled, enq, eosSeen, rbSpin, q_destructed, destroyed,
           accessedPopped, enqDispose, eodRet>>

lifeVars == <<q_destructed, destroyed, accessedPopped, enqDispose, eodRet>>

laVars == <<la_loops, la_completeIterations, la_parent, la_N, la_startPos,
            la_faulted, la_total, la_before, la_lastReq, la_lastRet, la_depth,
            la_ctor, la_afterFail, la_parentAtFail, la_diverged, la_aborted>>

slaVars == <<sla_loops, sla_completeIterations, sla_pos, sla_loopStart,
             sla_loopEnd, sla_parent, sla_wrapped, sla_faulted, sla_diverged,
             sla_prevLast, sla_src, sla_lastReq, sla_lastRet, sla_cause,
             sla_afterFault, sla_aborted>>

ssaVars == <<ssa_start, ssa_length, ssa_pos, ssa_parent, ssa_format,
             ssa_sinceSeek, ssa_posBefore, ssa_lastReq, ssa_lastAsk,
             ssa_lastRet, ssa_seekRet, ssa_prevSeekRet, ssa_seekPos,
             ssa_parentSeek, ssa_parentBefore>>

limVars == <<lim_totalSamples, lim_samplesRead, lim_parent, lim_delivered,
             lim_lastReq, lim_lastAsk, lim_lastRet>>

cvVars == <<cv_where, cv_rate, cv_isStereo, cv_result>>

nonQueueVars == <<laVars, slaVars, ssaVars, limVars, cvVars>>

vars == <<unit, qVars, laVars, slaVars, ssaVars, limVars, cvVars>>

Min(a, b) == IF a < b THEN a ELSE b

\* ------------------------------------------------- a queued AudioStream
\* A queued stream holds `rem` samples it will still deliver, of which
\* `avail` are decoded and can be read now (a streamed source may be starved);
\* `dispose` is the _disposeAfterUse of its StreamHolder.
NoStream == [id |-> 0, rem |-> 0, avail |-> 0, dispose |-> FALSE]

\* AudioStream::readBuffer: the number of samples a read of k delivers.
StreamRead(s, k) == Min(k, s.avail)

\* AudioStream::readBuffer, every count a read of k may deliver.  A decoder
\* returns data it has or reports starvation through endOfData: it delivers
\* at least one sample unless none is readable.  The raw buffers of the
\* documented scenario deliver all that is asked for; under "anyqueue" a
\* read may deliver any count down to none, whatever the stream reports.
StreamReads(s, k) ==
    CASE unit = "scenario" -> {StreamRead(s, k)}
      [] unit = "anyqueue" -> 0..StreamRead(s, k)
      [] OTHER -> IF StreamRead(s, k) = 0 THEN {0} ELSE 1..StreamRead(s, k)

\* The stream after delivering d samples.
StreamAfter(s, d) == [s EXCEPT !.rem = s.rem - d, !.avail = s.avail - d]

\* AudioStream::endOfData: nothing can be read right now.
StreamEndOfData(s) == s.avail = 0

\* AudioStream::endOfStream: nothing will ever be read again.
StreamEndOfStream(s) == s.rem = 0

\* ------------------------------------------------------------- error()
\* error(): whether the call ends the process.  The function is declared
\* outside the sources modelled.  A configuration error (a stream enqueued
\* with a mismatched rate or channel count) is fatal; a transient playback
\* error (a failed rewind or seek, a parent that ends early) is a diagnostic
\* for a recoverable failure, after which the next statement runs.
ErrorIsFatal(class) == class = "configuration"

\* ------------------------------------------------ QueuingAudioStreamImpl
\* A lock that never waits for its holder.
CanLockAlways == TRUE

\* Common::StackLock lock(_mutex) can be taken.
CanLock == q_mutex = "free"

\* A push at the front instead of the tail.
QueuePushFront(q, s) == <<s>> \o q

\* _queue.push(StreamHolder(stream, disposeAfterUse))
QueuePush(q, s) == Append(q, s)

\* _queue.pop()
QueuePop(q) == Tail(q)

\* An end-of-stream test that forgets the queue.
EndOfStreamIgnoringQueue == q_finished

\* endOfStream(): _finished && _queue.empty()
EndOfStream == q_finished /\ q_queue = <<>>

\* endOfData(): _queue.empty() || _queue.front()._stream->endOfData()
EndOfData == q_queue = <<>> \/ StreamEndOfData(Head(q_queue))

\* numQueuedStreams()
NumQueuedStreams == Len(q_queue)

QueueConstructed ==
    /\ q_queue = <<>>
    /\ q_finished = FALSE
    /\ q_mutex = "free"
    /\ q_aborted = FALSE
    /\ pcP = "idle"
    /\ pend = NoStream
    /\ pcC = "idle"
    /\ numSamples = 0
    /\ samplesDecoded = 0
    /\ pcF = "idle"
    /\ pcE = "idle"
    /\ eosRet = FALSE
    /\ pushed = 0
    /\ popped = <<>>
    /\ out = <<>>
    /\ rbOut = <<>>
    /\ rbRet = 0
    /\ finishCalled = FALSE
    /\ enq = <<>>
    /\ eosSeen = FALSE
    /\ rbSpin = FALSE
    /\ q_destructed = FALSE
    /\ destroyed = <<>>
    /\ accessedPopped = FALSE
    /\ enqDispose = <<>>
    /\ eodRet = FALSE

\* No looping stream exists in this behaviour.
NoLooping ==
    /\ la_loops = 0
    /\ la_completeIterations = 0
    /\ la_parent = [len |-> 0, pos |-> 0]
    /\ la_N = 0
    /\ la_startPos = 0
    /\ la_faulted = FALSE
    /\ la_total = 0
    /\ la_before = 0
    /\ la_lastReq = 0
    /\ la_lastRet = 0
    /\ la_depth = 0
    /\ la_ctor = "ok"
    /\ la_afterFail = "none"
    /\ la_parentAtFail = [len |-> 0, pos |-> 0]
    /\ la_diverged = FALSE
    /\ la_aborted = FALSE

\* No sub-looping stream exists in this behaviour.
NoSubLooping ==
    /\ sla_loops = 0
    /\ sla_completeIterations = 0
    /\ sla_pos = 0
    /\ sla_loopStart = 0
    /\ sla_loopEnd = 0
    /\ sla_parent = [len |-> 0, pos |-> 0]
    /\ sla_wrapped = FALSE
    /\ sla_faulted = FALSE
    /\ sla_diverged = FALSE
    /\ sla_prevLast = -1
    /\ sla_src = <<>>
    /\ sla_lastReq = 0
    /\ sla_lastRet = 0
    /\ sla_cause = "none"
    /\ sla_afterFault = "none"
    /\ sla_aborted = FALSE

\* No sub-range stream exists in this behaviour.
NoSubSeekable ==
    /\ ssa_start = 0
    /\ ssa_length = 0
    /\ ssa_pos = 0
    /\ ssa_parent = [len |-> 0, pos |-> 0]
    /\ ssa_format = [rate |-> 0, isStereo |-> FALSE]
    /\ ssa_sinceSeek = 0
    /\ ssa_posBefore = 0
    /\ ssa_lastReq = 0
    /\ ssa_lastAsk = 0
    /\ ssa_lastRet = 0
    /\ ssa_seekRet = "none"
    /\ ssa_prevSeekRet = "none"
    /\ ssa_seekPos = -1
    /\ ssa_parentSeek = "none"
    /\ ssa_parentBefore = [len |-> 0, pos |-> 0]

\* No limiting stream exists in this behaviour.
NoLimiting ==
    /\ lim_totalSamples = 0
    /\ lim_samplesRead = 0
    /\ lim_parent = [len |-> 0, pos |-> 0]
    /\ lim_delivered = 0
    /\ lim_lastReq = 0
    /\ lim_lastAsk = 0
    /\ lim_lastRet = 0

\* convertTimeToStreamPos has not been called on its own in this behaviour.
NoConversion ==
    /\ cv_where = -1
    /\ cv_rate = 0
    /\ cv_isStereo = FALSE
    /\ cv_result = [sub |-> 0, framerate |-> 1]

InitQueue ==
    /\ unit = "queue"
    /\ NoConversion
    /\ QueueConstructed
    /\ NoLooping
    /\ NoSubLooping
    /\ NoSubSeekable
    /\ NoLimiting

\* The behaviours about a QueuingAudioStreamImpl.
QueueUnits == {"queue", "scenario", "anyqueue", "lifetime"}

\* Dispose flags a behaviour enqueues streams with.  Only the lifetime of the
\* streams depends on the flag.
DisposeFlags == IF unit = "lifetime" THEN BOOLEAN ELSE {TRUE}

\* Ids of the streams popped so far.
PoppedIds == {popped[a] : a \in DOMAIN popped}

\* Streams a behaviour enqueues at most: the three of the scenario.
MaxQueued == IF unit = "scenario" THEN 3 ELSE MaxStreams

\* Lengths of the streams enqueued; the scenario's buffers of 8000 samples
\* are counted in blocks of 1000 samples.
StreamLens == IF unit = "scenario" THEN {8} ELSE 0..MaxLen

\* numSamples of the readBuffer calls; the scenario's chunks of 5000 samples
\* are counted in blocks of 1000 samples.
ReadSizes == IF unit = "scenario" THEN {5} ELSE 0..MaxRead

QRunning == unit \in QueueUnits /\ ~q_aborted /\ ~q_destructed

\* queueAudioStream, lines 371-373: assert(!_finished) and the parameter
\* check run before the lock is taken.  The read of _finished is not
\* ordered with a finish() that holds the lock and is about to write it:
\* it may see either value.
QasCheck ==
    /\ QRunning
    /\ pcP = "idle"
    /\ pushed < MaxQueued
    /\ \E rem \in StreamLens, avail \in 0..MaxLen \cup StreamLens,
          match \in BOOLEAN, seen \in BOOLEAN, flag \in DisposeFlags :
          /\ avail <= rem
          /\ unit = "scenario" => avail = rem
          /\ seen \in (IF pcF = "locked" THEN BOOLEAN ELSE {q_finished})
          /\ IF seen \/ (~match /\ ErrorIsFatal("configuration"))
               THEN /\ q_aborted' = TRUE
                    /\ UNCHANGED <<pcP, pend>>
               ELSE /\ pcP' = "checked"
                    /\ pend' = [id |-> 0, rem |-> rem, avail |-> avail,
                                 dispose |-> flag]
                    /\ UNCHANGED q_aborted
    /\ UNCHANGED <<unit, nonQueueVars, lifeVars, enq, eosSeen, rbSpin, q_queue, q_finished, q_mutex, pcC, numSamples,
                   samplesDecoded, pcF, pcE, eosRet, pushed, popped, out,
                   rbOut, rbRet, finishCalled>>

\* queueAudioStream, line 375: Common::StackLock lock(_mutex)
QasLock ==
    /\ QRunning
    /\ pcP = "checked"
    /\ CanLock
    /\ q_mutex' = "producer"
    /\ pcP' = "locked"
    /\ UNCHANGED <<unit, nonQueueVars, lifeVars, enq, eosSeen, rbSpin, q_queue, q_finished, q_aborted, pend, pcC, numSamples,
                   samplesDecoded, pcF, pcE, eosRet, pushed, popped, out,
                   rbOut, rbRet, finishCalled>>

\* queueAudioStream, lines 376-377: push, then the lock is released.
QasPush ==
    /\ QRunning
    /\ pcP = "locked"
    /\ q_queue' = QueuePush(q_queue, [pend EXCEPT !.id = pushed + 1])
    /\ pushed' = pushed + 1
    /\ enq' = Append(enq, pend.rem)
    /\ enqDispose' = Append(enqDispose, pend.dispose)
    /\ q_mutex' = "free"
    /\ pcP' = "idle"
    /\ pend' = NoStream
    /\ UNCHANGED <<unit, nonQueueVars, q_destructed, destroyed,
                   accessedPopped, eodRet, eosSeen, rbSpin, q_finished, q_aborted, pcC, numSamples,
                   samplesDecoded, pcF, pcE, eosRet, popped, out, rbOut,
                   rbRet, finishCalled>>

\* readBuffer, lines 380-381: take the lock, samplesDecoded = 0.
RbLock ==
    /\ QRunning
    /\ pcC = "idle"
    /\ CanLock
    /\ \E n \in ReadSizes : numSamples' = n
    /\ rbSpin' = FALSE
    /\ samplesDecoded' = 0
    /\ rbOut' = <<>>
    /\ q_mutex' = "consumer"
    /\ pcC' = "loop"
    /\ UNCHANGED <<unit, nonQueueVars, lifeVars, enq, eosSeen, q_queue, q_finished, q_aborted, pcP, pend, pcF, pcE,
                   eosRet, pushed, popped, out, rbRet, finishCalled>>

\* readBuffer, lines 388-397, on a front stream that is starved although it
\* is finished: the end-of-data test comes first.
RbAfterReadDataFirst(atEndOfStream, atEndOfData) ==
    IF atEndOfData THEN "break"
    ELSE IF atEndOfStream THEN "pop"
    ELSE "again"

\* readBuffer, lines 388-397, taking a starved front stream for a finished one.
RbAfterReadPopStarved(atEndOfStream, atEndOfData) ==
    IF atEndOfStream \/ atEndOfData THEN "pop" ELSE "again"

\* readBuffer, lines 388-397, without the test for a starved front stream.
RbAfterReadNoBreak(atEndOfStream, atEndOfData) ==
    IF atEndOfStream THEN "pop" ELSE "again"

\* readBuffer, lines 388-397: what follows the read from the front stream.
RbAfterRead(atEndOfStream, atEndOfData) ==
    IF atEndOfStream THEN "pop"
    ELSE IF atEndOfData THEN "break"
    ELSE "again"

\* A holder whose stream is deleted whatever its flag says.
DisposesAlways(holder) == TRUE

\* tmp._disposeAfterUse == DisposeAfterUse::YES (lines 365, 390)
Disposes(holder) == holder.dispose

\* An end-of-data test that also runs on the stream just popped.
RbTestsEndOfDataAlways(then) == TRUE

\* Whether the iteration calls stream->endOfData() (line 396): the continue
\* at line 392 skips it once the stream has been popped.
RbTestsEndOfData(then) == then # "pop"

\* readBuffer, lines 383-398: one iteration of the while loop.
RbIter ==
    /\ QRunning
    /\ pcC = "loop"
    /\ samplesDecoded < numSamples
    /\ q_queue # <<>>
    /\ LET stream == Head(q_queue) IN
       \E d \in StreamReads(stream, numSamples - samplesDecoded) :
       LET after  == StreamAfter(stream, d)
           ids    == [i \in 1..d |-> stream.id]
           then   == RbAfterRead(StreamEndOfStream(after), StreamEndOfData(after))
       IN  /\ samplesDecoded' = samplesDecoded + d
           /\ out' = out \o ids
           /\ rbOut' = rbOut \o ids
           /\ q_queue' = IF then = "pop" THEN QueuePop(q_queue)
                         ELSE <<after>> \o Tail(q_queue)
           /\ popped' = IF then = "pop" THEN Append(popped, stream.id)
                        ELSE popped
           /\ pcC' = IF then = "break" THEN "break" ELSE "loop"
           /\ rbSpin' = (d = 0 /\ then = "again")
           /\ destroyed' = IF then = "pop" /\ Disposes(stream)
                             THEN Append(destroyed, stream.id)
                            ELSE destroyed
           /\ accessedPopped' = \/ accessedPopped
                                 \/ stream.id \in PoppedIds
                                 \/ (then = "pop" /\ RbTestsEndOfData(then))
    /\ UNCHANGED <<unit, nonQueueVars, q_destructed, enqDispose, eodRet, enq, eosSeen, q_finished, q_mutex, q_aborted, pcP, pend, numSamples,
                   pcF, pcE, eosRet, pushed, rbRet, finishCalled>>

\* readBuffer, line 400: the loop is left, the lock released, the count returned.
RbReturn ==
    /\ QRunning
    /\ \/ pcC = "break"
       \/ pcC = "loop" /\ ~(samplesDecoded < numSamples /\ q_queue # <<>>)
    /\ rbRet' = samplesDecoded
    /\ q_mutex' = "free"
    /\ pcC' = "idle"
    /\ UNCHANGED <<unit, nonQueueVars, lifeVars, enq, eosSeen, rbSpin, q_queue, q_finished, q_aborted, pcP, pend, numSamples,
                   samplesDecoded, pcF, pcE, eosRet, pushed, popped, out, rbOut,
                   finishCalled>>

\* finish(), line 352: take the lock.
FinishLock ==
    /\ QRunning
    /\ pcF = "idle"
    /\ CanLock
    /\ q_mutex' = "finisher"
    /\ pcF' = "locked"
    /\ UNCHANGED <<unit, nonQueueVars, lifeVars, enq, eosSeen, rbSpin, q_queue, q_finished, q_aborted, pcP, pend, pcC,
                   numSamples, samplesDecoded, pcE, eosRet, pushed, popped, out,
                   rbOut, rbRet, finishCalled>>

\* finish(), lines 353-354: _finished = true, release.
FinishSet ==
    /\ QRunning
    /\ pcF = "locked"
    /\ q_finished' = TRUE
    /\ finishCalled' = TRUE
    /\ q_mutex' = "free"
    /\ pcF' = "idle"
    /\ UNCHANGED <<unit, nonQueueVars, lifeVars, enq, eosSeen, rbSpin, q_queue, q_aborted, pcP, pend, pcC, numSamples,
                   samplesDecoded, pcE, eosRet, pushed, popped, out, rbOut,
                   rbRet>>

\* endOfStream(), lines 344-345: take the lock and evaluate.
EosLock ==
    /\ QRunning
    /\ pcE = "idle"
    /\ CanLock
    /\ q_mutex' = "observer"
    /\ eosRet' = EndOfStream
    /\ pcE' = "locked"
    /\ UNCHANGED <<unit, nonQueueVars, lifeVars, enq, eosSeen, rbSpin, q_queue, q_finished, q_aborted, pcP, pend, pcC,
                   numSamples, samplesDecoded, pcF, pushed, popped, out, rbOut,
                   rbRet, finishCalled>>

\* endOfStream(), line 346: return, releasing the lock.
EosReturn ==
    /\ QRunning
    /\ pcE = "locked"
    /\ q_mutex' = "free"
    /\ pcE' = "idle"
    /\ eosSeen' = (eosSeen \/ eosRet)
    /\ UNCHANGED <<unit, nonQueueVars, lifeVars, enq, rbSpin, q_queue, q_finished, q_aborted, pcP, pend, pcC,
                   numSamples, samplesDecoded, pcF, eosRet, pushed, popped, out,
                   rbOut, rbRet, finishCalled>>

\* The decoder behind a queued streamed source makes one more sample
\* readable (the stream leaves end-of-data without the queue being involved).
Decode ==
    /\ QRunning
    /\ \E i \in 1..Len(q_queue) :
          /\ q_queue[i].avail < q_queue[i].rem
          /\ q_queue' = [q_queue EXCEPT ![i].avail = @ + 1]
    /\ UNCHANGED <<unit, nonQueueVars, lifeVars, enq, eosSeen, rbSpin, q_finished, q_mutex, q_aborted, pcP, pend, pcC,
                   numSamples, samplesDecoded, pcF, pcE, eosRet, pushed, popped,
                   out, rbOut, rbRet, finishCalled>>

NextQueue ==
    \/ QasCheck
    \/ QasLock
    \/ QasPush
    \/ RbLock
    \/ RbIter
    \/ RbReturn
    \/ FinishLock
    \/ FinishSet
    \/ EosLock
    \/ EosReturn
    \/ Decode

SpecQueue == InitQueue /\ [][NextQueue]_vars

\* makeQueuingAudioStream for the documented scenario.
InitScenario ==
    /\ unit = "scenario"
    /\ NoConversion
    /\ QueueConstructed
    /\ NoLooping
    /\ NoSubLooping
    /\ NoSubSeekable
    /\ NoLimiting

\* The queue over decoders and over the buffers of the scenario.
SpecDrain == (InitQueue \/ InitScenario) /\ [][NextQueue]_vars

\* makeQueuingAudioStream, for streams whose reads may deliver nothing.
InitAnyQueue ==
    /\ unit = "anyqueue"
    /\ NoConversion
    /\ QueueConstructed
    /\ NoLooping
    /\ NoSubLooping
    /\ NoSubSeekable
    /\ NoLimiting

SpecAnyQueue == InitAnyQueue /\ [][NextQueue]_vars

\* endOfData(), lines 338-341: under the lock, asks the front stream.
EndOfDataCall ==
    /\ QRunning
    /\ CanLock
    /\ eodRet' = EndOfData
    /\ accessedPopped' = \/ accessedPopped
                          \/ (q_queue # <<>> /\ Head(q_queue).id \in PoppedIds)
    /\ UNCHANGED <<unit, nonQueueVars, q_destructed, destroyed, enqDispose,
                   enq, eosSeen, rbSpin, q_queue, q_finished, q_mutex,
                   q_aborted, pcP, pend, pcC, numSamples, samplesDecoded, pcF,
                   pcE, eosRet, pushed, popped, out, rbOut, rbRet,
                   finishCalled>>

\* ~QueuingAudioStreamImpl, lines 363-367: the holders popped, front first.
RECURSIVE DestructorPops(_)
DestructorPops(q) ==
    IF q = <<>> THEN <<>>
    ELSE <<Head(q).id>> \o DestructorPops(QueuePop(q))

\* ~QueuingAudioStreamImpl, lines 363-367: the streams deleted on the way.
RECURSIVE DestructorDeletes(_)
DestructorDeletes(q) ==
    IF q = <<>> THEN <<>>
    ELSE LET tmp == Head(q)
         IN  (IF Disposes(tmp) THEN <<tmp.id>> ELSE <<>>)
               \o DestructorDeletes(QueuePop(q))

\* ~QueuingAudioStreamImpl, lines 362-368.  The object is destroyed when no
\* call on it is in progress.
Destructor ==
    /\ QRunning
    /\ pcP = "idle" /\ pcC = "idle" /\ pcF = "idle" /\ pcE = "idle"
    /\ q_destructed' = TRUE
    /\ popped' = popped \o DestructorPops(q_queue)
    /\ destroyed' = destroyed \o DestructorDeletes(q_queue)
    /\ q_queue' = <<>>
    /\ UNCHANGED <<unit, nonQueueVars, accessedPopped, enqDispose, eodRet,
                   enq, eosSeen, rbSpin, q_finished, q_mutex, q_aborted, pcP,
                   pend, pcC, numSamples, samplesDecoded, pcF, pcE, eosRet,
                   pushed, out, rbOut, rbRet, finishCalled>>

\* makeQueuingAudioStream, for a queue followed to its destruction.
InitLife ==
    /\ unit = "lifetime"
    /\ NoConversion
    /\ QueueConstructed
    /\ NoLooping
    /\ NoSubLooping
    /\ NoSubSeekable
    /\ NoLimiting

\* Enqueues, reads and end-of-data queries, then the destruction.
NextLife ==
    \/ QasCheck
    \/ QasLock
    \/ QasPush
    \/ RbLock
    \/ RbIter
    \/ RbReturn
    \/ Decode
    \/ EndOfDataCall
    \/ Destructor

SpecLife == InitLife /\ [][NextLife]_vars

\* ---------------------------------------------------- LoopingAudioStream
\* The rewindable parent is a finite stream of `len` samples read from `pos`.
\* RewindableAudioStream::readBuffer: a read of n delivers what is left.
ParentRead(p, n) == Min(n, p.len - p.pos)

\* RewindableAudioStream::endOfStream
ParentEndOfStream(p) == p.pos = p.len

\* What a rewind() can do: succeed, fail, or succeed on a source that turns
\* out to hold nothing any more.
RewindOutcomes == {"ok", "fail", "empty"}

\* The parent after rewind() with the given outcome.
ParentRewind(p, outcome) ==
    CASE outcome = "ok"    -> [p EXCEPT !.pos = 0]
      [] outcome = "fail"  -> p
      [] outcome = "empty" -> [len |-> 0, pos |-> 0]

\* A constructor that keeps looping over a parent standing at its end.
CtorCollapsesOnFailureOnly(rewindFailed, parentAtEnd) == rewindFailed

\* LoopingAudioStream::LoopingAudioStream, lines 99-106: the loop count
\* collapses to one pass, counted as done.
CtorCollapses(rewindFailed, parentAtEnd) == rewindFailed \/ parentAtEnd

\* A failed rewind after which the loop budget is left as it was.
LoopsKeptAfterFailedRewind(loops, iterations) == loops

\* _loops = _completeIterations after a failed rewind (line 127)
LoopsAfterFailedRewind(loops, iterations) == iterations

\* A rewind onto an empty parent after which the loop budget is left as it was.
LoopsKeptAfterRewind(loops, iterations, parentAtEnd) == loops

\* Lines 130-133: the parent is at its end right after the rewind.
LoopsAfterRewind(loops, iterations, parentAtEnd) ==
    IF parentAtEnd THEN iterations ELSE loops

\* A loop budget that is taken to be used up one pass early.
LoopExhaustedEarly(loops, iterations) == loops # 0 /\ iterations + 1 >= loops

\* _loops && _completeIterations == _loops (lines 113, 142, 146)
LoopExhausted(loops, iterations) == loops # 0 /\ iterations = loops

\* An end-of-stream test without the "0 loops means for ever" case.
LoopingEndOfStreamFinite == la_completeIterations = la_loops

\* LoopingAudioStream::endOfStream
LoopingEndOfStream == LoopExhausted(la_loops, la_completeIterations)

\* LoopingAudioStream::endOfData
LoopingEndOfData ==
    \/ LoopExhausted(la_loops, la_completeIterations)
    \/ la_parent.pos = la_parent.len

\* A continuation that asks for nothing: the read stops at the loop boundary.
RemainingSamplesNone(n, samplesRead) == 0

\* const int remainingSamples = numSamples - samplesRead (line 123)
RemainingSamples(n, samplesRead) == n - samplesRead

\* LoopingAudioStream::readBuffer on the object state st = [loops, iter,
\* parent, ret, depth, faulted, failed, aborted, diverged]; the faultAt-th
\* rewind of the call (0: none) has outcome `fault`, every other rewind
\* succeeds.  The result is the object state when the outermost activation
\* returns, ret the samples read.  A failed rewind is reported through
\* error() (line 126); `faulted` records that a rewind failed or emptied the
\* parent, `failed` that it failed.  A call that nests MaxNesting activations
\* is taken to nest without end.
RECURSIVE LoopingReadBuffer(_, _, _, _)
LoopingReadBuffer(st, n, faultAt, fault) ==
    LET here == [st EXCEPT !.depth = @ + 1] IN
    IF st.depth >= MaxNesting
      THEN [st EXCEPT !.diverged = TRUE]
    ELSE IF LoopExhausted(st.loops, st.iter) \/ n = 0
      THEN here
      ELSE
        LET samplesRead == ParentRead(st.parent, n)
            parent1 == [st.parent EXCEPT !.pos = @ + samplesRead]
            read == [here EXCEPT !.parent = parent1, !.ret = @ + samplesRead]
        IN
        IF ~ParentEndOfStream(parent1)
          THEN read
          ELSE
            LET iter1 == st.iter + 1
                counted == [read EXCEPT !.iter = iter1]
                outcome == IF faultAt = 1 THEN fault ELSE "ok"
                parent2 == ParentRewind(parent1, outcome)
            IN
            IF iter1 = st.loops
              THEN counted
            ELSE IF outcome = "fail"
              THEN IF ErrorIsFatal("transient")
                     THEN [counted EXCEPT !.aborted = TRUE]
                     ELSE [counted EXCEPT
                              !.loops = LoopsAfterFailedRewind(st.loops, iter1),
                              !.faulted = TRUE,
                              !.failed = TRUE]
            ELSE
              LoopingReadBuffer(
                  [counted EXCEPT
                      !.parent = parent2,
                      !.loops = LoopsAfterRewind(st.loops, iter1,
                                                 ParentEndOfStream(parent2)),
                      !.faulted = @ \/ ParentEndOfStream(parent2)],
                  RemainingSamples(n, samplesRead),
                  IF faultAt > 0 THEN faultAt - 1 ELSE 0,
                  fault)

\* The small parents, and the 100-sample parent of the documented scenario.
LoopParentLens == (0..MaxParentLen) \cup {100}

\* The small requests, and the 250 and 50 of the documented scenario.
LoopReadSizes == (0..MaxParentLen) \cup {50, 250}

\* LoopingAudioStream::LoopingAudioStream(stream, loops, rewind) over a
\* parent of len samples standing at pos0.
InitLoop ==
    /\ unit = "loop"
    /\ NoConversion
    /\ QueueConstructed
    /\ NoSubLooping
    /\ NoSubSeekable
    /\ NoLimiting
    /\ \E len \in LoopParentLens, loops \in 0..MaxLoops, rewind \in BOOLEAN,
          outcome \in {"ok", "fail"} :
       \E pos0 \in (IF rewind /\ outcome = "ok" THEN {0} ELSE {0, len \div 2, len}) :
          LET given == [len |-> len, pos |-> pos0]
              parent == IF rewind THEN ParentRewind(given, outcome) ELSE given
              rewindFailed == rewind /\ outcome = "fail"
              dies == rewindFailed /\ ErrorIsFatal("transient")
              collapse == CtorCollapses(rewindFailed, ParentEndOfStream(parent))
          IN  /\ la_parent = parent
              /\ la_loops = IF collapse THEN 1 ELSE loops
              /\ la_completeIterations = IF collapse THEN 1 ELSE 0
              /\ la_N = loops
              /\ la_startPos = parent.pos
              /\ la_faulted = rewindFailed
              /\ la_aborted = dies
              /\ la_ctor = IF rewindFailed THEN "rewindFailed"
                           ELSE IF ParentEndOfStream(parent) THEN "atEnd"
                           ELSE "ok"
    /\ la_total = 0
    /\ la_before = 0
    /\ la_lastReq = 0
    /\ la_lastRet = 0
    /\ la_depth = 0
    /\ la_afterFail = "none"
    /\ la_parentAtFail = [len |-> 0, pos |-> 0]
    /\ la_diverged = FALSE

\* One readBuffer(buffer, n) call, with every rewind it performs.
LoopingRead ==
    /\ unit = "loop"
    /\ ~la_aborted
    /\ ~la_diverged
    /\ \E n \in LoopReadSizes, faultAt \in 0..2, fault \in {"fail", "empty"} :
          /\ la_loops = 0 =>
                n <= (MaxIterations - la_completeIterations) * la_parent.len
          /\ faultAt = 0 => fault = "fail"
          /\ LET st == [loops |-> la_loops, iter |-> la_completeIterations,
                        parent |-> la_parent, ret |-> 0, depth |-> 0,
                        faulted |-> FALSE, failed |-> FALSE,
                        aborted |-> FALSE, diverged |-> FALSE]
                 r  == LoopingReadBuffer(st, n, faultAt, fault)
             IN  /\ la_loops' = r.loops
                 /\ la_completeIterations' = r.iter
                 /\ la_parent' = r.parent
                 /\ la_faulted' = (la_faulted \/ r.faulted)
                 /\ la_total' = la_total + r.ret
                 /\ la_before' = la_total
                 /\ la_lastReq' = n
                 /\ la_lastRet' = r.ret
                 /\ la_depth' = r.depth
                 /\ la_afterFail' = IF r.failed THEN "failing"
                                    ELSE IF la_afterFail = "none" THEN "none"
                                    ELSE "later"
                 /\ la_parentAtFail' = IF r.failed THEN r.parent
                                       ELSE la_parentAtFail
                 /\ la_diverged' = r.diverged
                 /\ la_aborted' = r.aborted
    /\ UNCHANGED <<unit, cvVars, qVars, slaVars, ssaVars, limVars, la_N,
                   la_startPos, la_ctor>>

NextLoop == LoopingRead

SpecLoop == InitLoop /\ [][NextLoop]_vars

\* ------------------------------------------------- time to stream position
\* Sample rates of the streams considered, in Hz.
Rates == {500, 1000}

\* isStereo() ? 2 : 1
Channels(isStereo) == IF isStereo THEN 2 ELSE 1

\* Timestamp(ms).convertToFramerate(framerate).totalNumberOfFrames(): whole
\* frames of a time given in msec, the sub-frame part dropped.
TotalNumberOfFrames(ms, framerate) == (ms * framerate) \div 1000

\* A Timestamp is an exact position at a frame rate: `sub` counts
\* thousandths of a frame, so that every time in msec is exact at every rate.
\* Timestamp(ms).convertToFramerate(framerate)
ConvertToFramerate(ms, framerate) ==
    [sub |-> ms * framerate, framerate |-> framerate]

\* Timestamp::totalNumberOfFrames(): whole frames, the sub-frame part dropped.
TsTotalNumberOfFrames(t) == t.sub \div 1000

\* Timestamp::addFrames(frames)
TsAddFrames(t, frames) == [t EXCEPT !.sub = @ + 1000 * frames]

\* Timestamp::secs(): whole seconds.
TsSecs(t) == t.sub \div (1000 * t.framerate)

\* Timestamp::numberOfFrames(): whole frames within the running second.
TsNumberOfFrames(t) == (t.sub \div 1000) % t.framerate

\* Timestamp(secs, frames, framerate)
TsMake(secs, frames, framerate) ==
    [sub |-> (secs * framerate + frames) * 1000, framerate |-> framerate]

\* The part of a frame a Timestamp holds beyond its whole frames.
TsSubFrame(t) == t.sub % 1000

\* An odd sample position moved up to the next even one.
StereoAlignUp(result, isStereo) ==
    IF isStereo /\ TsTotalNumberOfFrames(result) % 2 = 1
      THEN TsAddFrames(result, 1) ELSE result

\* Lines 412-413: an odd sample position of a stereo stream is cut by one.
StereoAlign(result, isStereo) ==
    IF isStereo /\ TsTotalNumberOfFrames(result) % 2 = 1
      THEN TsAddFrames(result, -1) ELSE result

\* convertTimeToStreamPos(where, rate, isStereo): the Timestamp returned.
StreamPos(where, rate, isStereo) ==
    LET result == StereoAlign(
                      ConvertToFramerate(where, rate * Channels(isStereo)),
                      isStereo)
    IN  TsMake(TsSecs(result), TsNumberOfFrames(result), result.framerate)

\* convertTimeToStreamPos(where, rate, isStereo), as a sample count.
convertTimeToStreamPos(ms, rate, isStereo) ==
    TsTotalNumberOfFrames(StreamPos(ms, rate, isStereo))

\* Sample rates convertTimeToStreamPos is applied to on its own, in Hz.
ConvertRates == {500, 1000, 8000, 11025, 22050, 44100}

InitConvert ==
    /\ unit = "convert"
    /\ QueueConstructed
    /\ NoLooping
    /\ NoSubLooping
    /\ NoSubSeekable
    /\ NoLimiting
    /\ NoConversion

\* One call convertTimeToStreamPos(where, rate, isStereo).
Convert ==
    /\ unit = "convert"
    /\ \E where \in 0..MaxConvMs, rate \in ConvertRates, isStereo \in BOOLEAN :
          /\ cv_where' = where
          /\ cv_rate' = rate
          /\ cv_isStereo' = isStereo
          /\ cv_result' = StreamPos(where, rate, isStereo)
    /\ UNCHANGED <<unit, qVars, laVars, slaVars, ssaVars, limVars>>

NextConvert == Convert

SpecConvert == InitConvert /\ [][NextConvert]_vars

\* SeekableAudioStream::seek(where) on a finite parent: it fails beyond the
\* end of the parent, or when the source reports failure (ok = FALSE).
ParentSeekOk(p, where, ok) == ok /\ 0 <= where /\ where <= p.len

\* The parent after seek(where).
ParentSeek(p, where, ok) ==
    IF ParentSeekOk(p, where, ok) THEN [p EXCEPT !.pos = where] ELSE p

\* ------------------------------------------------- SubLoopingAudioStream
\* A read that is not stopped at the loop end.
SubLoopFramesLeftUncapped(loopEnd, pos, n) == n

\* int framesLeft = MIN(_loopEnd.frameDiff(_pos), numSamples) (line 197)
SubLoopFramesLeft(loopEnd, pos, n) == Min(loopEnd - pos, n)

\* A parent that ended early before any pass was counted, left uncounted.
IterationsKeptAfterPrematureEnd(iterations) == iterations

\* if (!_completeIterations) _completeIterations = 1 (lines 203-204)
IterationsAfterPrematureEnd(iterations) ==
    IF iterations = 0 THEN 1 ELSE iterations

\* SubLoopingAudioStream::endOfStream
SubLoopingEndOfStream == sla_loops # 0 /\ sla_completeIterations = sla_loops

\* SubLoopingAudioStream::endOfData
SubLoopingEndOfData ==
    \/ (sla_loops # 0 /\ sla_completeIterations = sla_loops)
    \/ sla_parent.pos = sla_parent.len

\* SubLoopingAudioStream::readBuffer on st = [loops, iter, pos, parent, ret,
\* src, wrapped, faulted, diverged, cause, aborted]; the faultAt-th seek of
\* the call (0: none) fails.  A parent that ended early and a failed seek
\* are reported through error() (lines 202, 213).  With an empty converted loop range and no loop limit the
\* code re-enters itself without reading anything and never returns: that
\* is reported as diverged.
RECURSIVE SubLoopingReadBuffer(_, _, _, _, _)
SubLoopingReadBuffer(st, n, loopStart, loopEnd, faultAt) ==
    IF (st.loops # 0 /\ st.iter = st.loops) \/ n = 0
      THEN st
    ELSE IF /\ st.loops = 0 /\ faultAt = 0
            /\ loopStart = loopEnd /\ st.pos = loopEnd
            /\ ParentSeekOk(st.parent, loopStart, TRUE)
      THEN [st EXCEPT !.diverged = TRUE]
    ELSE
      LET framesLeft == SubLoopFramesLeft(loopEnd, st.pos, n)
          framesRead == ParentRead(st.parent, framesLeft)
          parent1 == [st.parent EXCEPT !.pos = @ + framesRead]
          pos1 == st.pos + framesRead
          read == [st EXCEPT
                     !.parent = parent1,
                     !.pos = pos1,
                     !.ret = @ + framesRead,
                     !.src = @ \o [i \in 1..framesRead |-> st.parent.pos + i - 1]]
      IN
      IF framesRead < framesLeft /\ ParentEndOfStream(parent1)
        THEN \* parent stream ended prematurely
             LET iter1 == IterationsAfterPrematureEnd(st.iter)
             IN  IF ErrorIsFatal("transient")
                   THEN [read EXCEPT !.aborted = TRUE]
                   ELSE [read EXCEPT !.iter = iter1, !.loops = iter1,
                                     !.faulted = TRUE, !.cause = "premature"]
      ELSE IF pos1 = loopEnd
        THEN
          LET iter1 == st.iter + 1
              counted == [read EXCEPT !.iter = iter1]
              ok == faultAt # 1
          IN
          IF iter1 = st.loops
            THEN counted
          ELSE IF ~ParentSeekOk(parent1, loopStart, ok)
            THEN IF ErrorIsFatal("transient")
                   THEN [counted EXCEPT !.aborted = TRUE]
                   ELSE [counted EXCEPT !.loops = iter1, !.faulted = TRUE,
                                        !.cause = "seek"]
          ELSE
            SubLoopingReadBuffer(
                [counted EXCEPT
                    !.parent = ParentSeek(parent1, loopStart, ok),
                    !.pos = loopStart,
                    !.wrapped = TRUE],
                n - framesLeft, loopStart, loopEnd,
                IF faultAt > 0 THEN faultAt - 1 ELSE 0)
      ELSE read

\* SubLoopingAudioStream::SubLoopingAudioStream(stream, loops, loopStart,
\* loopEnd): the bounds are converted, the parent is rewound.
InitSubLoop ==
    /\ unit = "subloop"
    /\ NoConversion
    /\ QueueConstructed
    /\ NoLooping
    /\ NoSubSeekable
    /\ NoLimiting
    /\ \E rate \in Rates, isStereo \in BOOLEAN, loopStart \in 0..MaxMs,
          loopEnd \in 0..MaxMs, loops \in 0..MaxLoops,
          len \in 0..MaxSeekableLen, rewindOk \in BOOLEAN :
          /\ loopStart < loopEnd
          /\ sla_loopStart = convertTimeToStreamPos(loopStart, rate, isStereo)
          /\ sla_loopEnd = convertTimeToStreamPos(loopEnd, rate, isStereo)
          /\ sla_parent = [len |-> len, pos |-> IF rewindOk THEN 0 ELSE len]
          /\ sla_loops = IF rewindOk THEN loops ELSE 1
          /\ sla_completeIterations = IF rewindOk THEN 0 ELSE 1
          /\ sla_faulted = ~rewindOk
          /\ sla_cause = IF rewindOk THEN "none" ELSE "ctor"
    /\ sla_pos = 0
    /\ sla_wrapped = FALSE
    /\ sla_diverged = FALSE
    /\ sla_prevLast = -1
    /\ sla_src = <<>>
    /\ sla_lastReq = 0
    /\ sla_lastRet = 0
    /\ sla_afterFault = "none"
    /\ sla_aborted = FALSE

\* One readBuffer(buffer, n) call, with every seek it performs.
SubLoopingRead ==
    /\ unit = "subloop"
    /\ ~sla_diverged
    /\ ~sla_aborted
    /\ \E n \in 0..MaxSubRead, faultAt \in 0..2 :
          LET st == [loops |-> sla_loops, iter |-> sla_completeIterations,
                     pos |-> sla_pos, parent |-> sla_parent, ret |-> 0,
                     src |-> <<>>, wrapped |-> sla_wrapped,
                     faulted |-> sla_faulted, diverged |-> FALSE,
                     cause |-> "none", aborted |-> FALSE]
              r  == SubLoopingReadBuffer(st, n, sla_loopStart, sla_loopEnd, faultAt)
          IN  /\ r.iter <= MaxIterations
              /\ sla_loops' = r.loops
              /\ sla_completeIterations' = r.iter
              /\ sla_pos' = r.pos
              /\ sla_parent' = r.parent
              /\ sla_wrapped' = r.wrapped
              /\ sla_faulted' = r.faulted
              /\ sla_diverged' = r.diverged
              /\ sla_prevLast' = IF sla_src = <<>> THEN sla_prevLast
                                 ELSE sla_src[Len(sla_src)]
              /\ sla_src' = r.src
              /\ sla_lastReq' = n
              /\ sla_lastRet' = r.ret
              /\ sla_cause' = IF r.cause # "none" THEN r.cause ELSE sla_cause
              /\ sla_afterFault' = IF r.cause # "none" THEN "failing"
                                    ELSE IF sla_afterFault = "none" THEN "none"
                                    ELSE "later"
              /\ sla_aborted' = r.aborted
    /\ UNCHANGED <<unit, cvVars, qVars, laVars, ssaVars, limVars, sla_loopStart, sla_loopEnd>>

NextSubLoop == SubLoopingRead

SpecSubLoop == InitSubLoop /\ [][NextSubLoop]_vars

\* ------------------------------------------------ SubSeekableAudioStream
\* A read that is not stopped at the end of the range.
SubSeekFramesLeftUncapped(length, pos, n) == n

\* int framesLeft = MIN(_length.frameDiff(_pos), numSamples) (line 253)
SubSeekFramesLeft(length, pos, n) == Min(length - pos, n)

\* SubSeekableAudioStream::SubSeekableAudioStream(parent, start, end): the
\* bounds are converted and the parent, standing anywhere, is sought to
\* _start; the result of that seek is not looked at.
InitSubSeek ==
    /\ unit = "subseek"
    /\ NoConversion
    /\ QueueConstructed
    /\ NoLooping
    /\ NoSubLooping
    /\ NoLimiting
    /\ \E rate \in Rates, isStereo \in BOOLEAN, start \in 0..MaxMs,
          end \in 0..MaxMs, len \in 0..MaxSeekableLen, seekOk \in BOOLEAN :
       \E pos0 \in {0, len} :
          /\ start <= end
          /\ ssa_format = [rate |-> rate, isStereo |-> isStereo]
          /\ ssa_start = convertTimeToStreamPos(start, rate, isStereo)
          /\ ssa_length = convertTimeToStreamPos(end, rate, isStereo)
                            - convertTimeToStreamPos(start, rate, isStereo)
          /\ ssa_parent =
                ParentSeek([len |-> len, pos |-> pos0],
                           convertTimeToStreamPos(start, rate, isStereo), seekOk)
    /\ ssa_pos = 0
    /\ ssa_sinceSeek = 0
    /\ ssa_posBefore = 0
    /\ ssa_lastReq = 0
    /\ ssa_lastAsk = 0
    /\ ssa_lastRet = 0
    /\ ssa_seekRet = "none"
    /\ ssa_prevSeekRet = "none"
    /\ ssa_seekPos = -1
    /\ ssa_parentSeek = "none"
    /\ ssa_parentBefore = [len |-> 0, pos |-> 0]

\* A seek that fails and leaves the position where the request put it.
PosKeptAfterFailedSeek(length, pos) == pos

\* _pos = _length when the seek fails (lines 262, 269)
PosAfterFailedSeek(length, pos) == length

\* SubSeekableAudioStream::readBuffer(buffer, n)
SubSeekableRead ==
    /\ unit = "subseek"
    /\ \E n \in 0..MaxSubRead :
          LET framesLeft == SubSeekFramesLeft(ssa_length, ssa_pos, n)
              framesRead == ParentRead(ssa_parent, framesLeft)
          IN  /\ ssa_parent' = [ssa_parent EXCEPT !.pos = @ + framesRead]
              /\ ssa_pos' = ssa_pos + framesRead
              /\ ssa_sinceSeek' = ssa_sinceSeek + framesRead
              /\ ssa_posBefore' = ssa_pos
              /\ ssa_lastReq' = n
              /\ ssa_lastAsk' = framesLeft
              /\ ssa_lastRet' = framesRead
              /\ ssa_seekRet' = "none"
              /\ ssa_prevSeekRet' = ssa_seekRet
    /\ UNCHANGED <<unit, cvVars, qVars, laVars, slaVars, limVars, ssa_start,
                   ssa_length, ssa_format, ssa_seekPos, ssa_parentSeek,
                   ssa_parentBefore>>

\* SubSeekableAudioStream::seek(where), where in msec.
SubSeekableSeek ==
    /\ unit = "subseek"
    /\ \E where \in 0..(MaxMs + 1), ok \in BOOLEAN :
          LET pos == convertTimeToStreamPos(where, ssa_format.rate,
                                            ssa_format.isStereo)
          IN  /\ ssa_seekPos' = pos
              /\ IF pos > ssa_length
                   THEN /\ ssa_pos' = PosAfterFailedSeek(ssa_length, pos)
                        /\ ssa_seekRet' = "false"
                        /\ ssa_parentSeek' = "none"
                        /\ UNCHANGED ssa_parent
                 ELSE IF ParentSeekOk(ssa_parent, pos + ssa_start, ok)
                   THEN /\ ssa_pos' = pos
                        /\ ssa_seekRet' = "true"
                        /\ ssa_parentSeek' = "ok"
                        /\ ssa_parent' = ParentSeek(ssa_parent, pos + ssa_start, ok)
                 ELSE /\ ssa_pos' = PosAfterFailedSeek(ssa_length, pos)
                      /\ ssa_seekRet' = "false"
                      /\ ssa_parentSeek' = "failed"
                      /\ ssa_parent' = ParentSeek(ssa_parent, pos + ssa_start, ok)
    /\ ssa_sinceSeek' = 0
    /\ ssa_prevSeekRet' = ssa_seekRet
    /\ ssa_parentBefore' = ssa_parent
    /\ UNCHANGED <<unit, cvVars, qVars, laVars, slaVars, limVars, ssa_start,
                   ssa_length, ssa_format, ssa_posBefore, ssa_lastReq,
                   ssa_lastAsk, ssa_lastRet>>

NextSubSeek ==
    \/ SubSeekableRead
    \/ SubSeekableSeek

SpecSubSeek == InitSubSeek /\ [][NextSubSeek]_vars

\* --------------------------------------------------- LimitingAudioStream
\* The parent is any AudioStream: a read may deliver fewer samples than it
\* is asked for, down to none.
AnyParentReads(p, n) == 0..Min(n, p.len - p.pos)

\* A request that is not capped by the samples left under the limit.
LimitRequestUncapped(n, totalSamples, samplesRead) == n

\* MIN<int>(numSamples, _totalSamples - _samplesRead) (line 448).  Both
\* counters are uint32 and their difference is read as an int; the values
\* considered stay below 2^31, where that conversion changes nothing.
LimitRequest(n, totalSamples, samplesRead) == Min(n, totalSamples - samplesRead)

\* reachedLimit()
ReachedLimit == lim_samplesRead >= lim_totalSamples

\* LimitingAudioStream::endOfStream
LimitingEndOfStream == ParentEndOfStream(lim_parent) \/ ReachedLimit

\* length.convertToFramerate(getRate()).totalNumberOfFrames() * getChannels()
LimitTotalSamples(ms, rate, isStereo) ==
    TotalNumberOfFrames(ms, rate) * Channels(isStereo)

\* LimitingAudioStream::LimitingAudioStream(parentStream, length)
InitLimit ==
    /\ unit = "limit"
    /\ NoConversion
    /\ QueueConstructed
    /\ NoLooping
    /\ NoSubLooping
    /\ NoSubSeekable
    /\ \E rate \in Rates, isStereo \in BOOLEAN, length \in 0..MaxMs,
          len \in 0..MaxSeekableLen, pos0 \in 0..MaxSeekableLen :
          /\ pos0 <= len
          /\ lim_parent = [len |-> len, pos |-> pos0]
          /\ lim_totalSamples = LimitTotalSamples(length, rate, isStereo)
    /\ lim_samplesRead = 0
    /\ lim_delivered = 0
    /\ lim_lastReq = 0
    /\ lim_lastAsk = 0
    /\ lim_lastRet = 0

\* LimitingAudioStream::readBuffer(buffer, n)
LimitingRead ==
    /\ unit = "limit"
    /\ \E n \in 0..MaxSubRead :
          LET ask == LimitRequest(n, lim_totalSamples, lim_samplesRead)
          IN  \E samplesRead \in AnyParentReads(lim_parent, ask) :
                 /\ lim_parent' = [lim_parent EXCEPT !.pos = @ + samplesRead]
                 /\ lim_samplesRead' = lim_samplesRead + samplesRead
                 /\ lim_delivered' = lim_delivered + samplesRead
                 /\ lim_lastReq' = n
                 /\ lim_lastAsk' = ask
                 /\ lim_lastRet' = samplesRead
    /\ UNCHANGED <<unit, cvVars, qVars, laVars, slaVars, ssaVars, lim_totalSamples>>

NextLimit == LimitingRead

SpecLimit == InitLimit /\ [][NextLimit]_vars

\* ------------------------------------------------------- the whole model
Init ==
    \/ InitQueue
    \/ InitScenario
    \/ InitAnyQueue
    \/ InitLife
    \/ InitLoop
    \/ InitSubLoop
    \/ InitSubSeek
    \/ InitLimit
    \/ InitConvert

Next ==
    \/ NextQueue
    \/ EndOfDataCall
    \/ Destructor
    \/ NextLoop
    \/ NextSubLoop
    \/ NextSubSeek
    \/ NextLimit
    \/ NextConvert

Spec == Init /\ [][Next]_vars

\* ---------------------------------------------- properties of the queue
IsSorted(s) == \A a, b \in DOMAIN s : a < b => s[a] <= s[b]

QueueIds == [i \in DOMAIN q_queue |-> q_queue[i].id]

\* The samples delivered so far are grouped by stream, in enqueue order,
\* and the streams still queued are in enqueue order too.
FifoInv ==
    /\ IsSorted(out)
    /\ IsSorted(QueueIds)
    /\ \A a \in DOMAIN out : \A i \in DOMAIN q_queue :
          out[a] <= q_queue[i].id
    /\ \A a \in DOMAIN out : \A i \in 2..Len(q_queue) :
          out[a] < q_queue[i].id

\* A step that shortens the queue removes exactly its front element.
PopsOnlyFront ==
    Len(q_queue') < Len(q_queue) =>
        /\ q_queue' = Tail(q_queue)
        /\ popped' = Append(popped, Head(q_queue).id)

\* C1: samples are delivered strictly in enqueue (FIFO) order: every sample
\* of the stream enqueued i-th is delivered before any sample of the stream
\* enqueued (i+1)-th, streams leave the queue only at its front, and a read
\* crossing from one stream into the next emits them without interleaving.
C1_FifoOrder == []FifoInv /\ [][PopsOnlyFront]_vars

\* One readBuffer call has delivered samples of two different streams.
C1_Witness ==
    /\ pcC = "idle"
    /\ rbRet = Len(rbOut)
    /\ \E a, b \in DOMAIN rbOut : rbOut[a] # rbOut[b]

\* C2: endOfStream() is true exactly when finish() has taken effect and the
\* queue is empty, in every reachable state and for every value a caller
\* obtains under the lock.
C2_EndOfStreamIff ==
    /\ EndOfStream <=> (finishCalled /\ Len(q_queue) = 0)
    /\ pcE = "locked" => (eosRet <=> (finishCalled /\ Len(q_queue) = 0))

\* endOfStream() returned true after two streams were enqueued and drained.
C2_Witness ==
    /\ pcE = "locked"
    /\ eosRet
    /\ Len(popped) >= 2

\* The threads inside a section guarded by _mutex.
InCritical ==
    {t \in {"producer", "consumer", "finisher", "observer"} :
        \/ t = "producer" /\ pcP = "locked"
        \/ t = "consumer" /\ pcC \in {"loop", "break"}
        \/ t = "finisher" /\ pcF = "locked"
        \/ t = "observer" /\ pcE = "locked"}

\* C3: with a producer enqueuing while a consumer reads, under every
\* interleaving the streams popped so far followed by the streams still
\* queued are exactly the streams pushed, each once and in order (none lost,
\* none duplicated), and the queue is only touched by the lock's holder.
C3_NoLossNoDuplicate ==
    /\ popped \o QueueIds = [i \in 1..pushed |-> i]
    /\ Cardinality(InCritical) <= 1
    /\ InCritical = IF q_mutex = "free" THEN {} ELSE {q_mutex}

\* The producer waits for the lock while the consumer, having delivered
\* samples in this call, is still inside readBuffer with a stream queued.
C3_Witness ==
    /\ pcP = "checked"
    /\ pcC = "loop"
    /\ q_mutex = "consumer"
    /\ Len(rbOut) >= 1
    /\ q_queue # <<>>

\* C4: every push happens while _finished is false, and a queueAudioStream
\* call that finds _finished set dies without touching the queue.
C4_NoPushOnceFinished ==
    /\ [][Len(q_queue') > Len(q_queue) => ~q_finished]_vars
    /\ [][(pcP = "idle" /\ q_finished /\ pcF = "idle"
           /\ <<pcP, q_aborted>>' # <<pcP, q_aborted>>)
             => (q_aborted' /\ q_queue' = q_queue)]_vars

\* C18: once endOfStream() has returned true, no later endOfStream() call
\* returns false and no later readBuffer delivers a sample.
C18_EndOfStreamPermanent ==
    [][eosSeen =>
          /\ out' = out
          /\ (pcE = "locked" /\ pcE' = "idle") => eosRet]_vars

\* Samples of the stream with the given id delivered so far.
Delivered(i) == Cardinality({a \in DOMAIN out : out[a] = i})

\* The stream with the given id has been popped.
InPopped(i) == \E a \in DOMAIN popped : popped[a] = i

\* Samples the stream with the given id still holds in the queue.
RemQueued(i) ==
    IF \E k \in DOMAIN q_queue : q_queue[k].id = i
      THEN (CHOOSE st \in {q_queue[k] : k \in DOMAIN q_queue} : st.id = i).rem
      ELSE 0

RECURSIVE SumSeq(_)
SumSeq(s) == IF s = <<>> THEN 0 ELSE Head(s) + SumSeq(Tail(s))

\* S: the total length of the streams enqueued so far.
Enqueued == SumSeq(enq)

DrainInv ==
    /\ Len(enq) = pushed
    /\ Len(out) <= Enqueued
    /\ \A i \in 1..pushed : Delivered(i) + RemQueued(i) = enq[i]
    /\ NumQueuedStreams = pushed - Len(popped)
    /\ pcC = "idle" =>
          \A i \in 1..pushed :
             enq[i] > 0 => (Delivered(i) = enq[i] <=> InPopped(i))
    /\ (q_finished /\ pcP = "idle" /\ EndOfStream) => Len(out) = Enqueued
    /\ (q_finished /\ pcP = "idle" /\ pcC = "idle"
          /\ \A i \in 1..pushed : enq[i] > 0)
         => (EndOfStream <=> Len(out) = Enqueued)
    /\ (unit = "scenario" /\ pushed = 3) => Enqueued = 24
    /\ unit = "scenario" => rbRet <= 5

\* A readBuffer call over the scenario's buffers returns a full chunk unless
\* it has emptied the queue, and no step removes more than one stream.
DrainStep ==
    /\ Len(q_queue') >= Len(q_queue) - 1
    /\ (unit = "scenario" /\ pcC # "idle" /\ pcC' = "idle")
         => (rbRet' = numSamples \/ q_queue = <<>>)

\* C11: once finite streams of total length S are enqueued and finish() has
\* been called, the reads deliver exactly S samples: nothing is delivered
\* that was not enqueued, a stream leaves the queue (numQueuedStreams() one
\* lower) in the very readBuffer call that takes its last sample and not
\* before, and endOfStream() is false while samples are left and true once
\* the last stream is exhausted.  Three buffers of 8 blocks read in chunks of
\* 5 blocks give 24 blocks, in chunks that are full until the queue is empty.
C11_DrainsExactly == []DrainInv /\ [][DrainStep]_vars

\* The scenario has run: the three buffers were drained, the last chunk
\* held the 4 blocks left of 24, and endOfStream() has then answered true.
C11_Witness ==
    /\ unit = "scenario"
    /\ popped = <<1, 2, 3>>
    /\ Len(out) = 24
    /\ numSamples = 5
    /\ rbRet = 4
    /\ pcC = "idle"
    /\ pcE = "locked"
    /\ eosRet

\* A step that is one iteration of the while loop of readBuffer.
IterStep ==
    /\ pcC = "loop"
    /\ pcC' \in {"loop", "break"}
    /\ <<samplesDecoded, popped, pcC, rbSpin>>' # <<samplesDecoded, popped, pcC, rbSpin>>

\* Samples the iteration read from the front stream.
IterRead == samplesDecoded' - samplesDecoded

PopOrBreakStep ==
    /\ (IterStep /\ Head(q_queue).rem = IterRead) =>
          /\ q_queue' = Tail(q_queue)
          /\ popped' = Append(popped, Head(q_queue).id)
          /\ pcC' = "loop"
          /\ rbRet' = rbRet
          /\ q_mutex' = "consumer"
    /\ (IterStep /\ Head(q_queue).rem > IterRead
           /\ Head(q_queue).avail = IterRead) =>
          /\ pcC' = "break"
          /\ Len(q_queue') = Len(q_queue)
          /\ Head(q_queue').id = Head(q_queue).id
          /\ Tail(q_queue') = Tail(q_queue)
          /\ popped' = popped
    /\ (pcC = "break" /\ pcC' # "break") =>
          /\ pcC' = "idle"
          /\ rbRet' = samplesDecoded
          /\ Len(q_queue') = Len(q_queue)
    /\ (pcC = "loop" /\ pcC' = "idle") =>
          /\ samplesDecoded = numSamples \/ q_queue = <<>>
          /\ rbRet' = samplesDecoded

\* C13: in readBuffer, a front stream found at end-of-stream after the read
\* is popped and the call stays in its loop, going on with the next queued
\* stream while samples are wanted and a stream is queued; a front stream
\* found at end-of-data but not at end-of-stream ends the loop, stays at the
\* head of the queue (queue length unchanged) and the call returns the
\* count read so far.
C13_PopOrBreak == [][PopOrBreakStep]_vars

\* One call has drained and popped a stream, gone on into the next one and
\* stopped short on it, starved: it is about to return a partial count.
C13_Witness ==
    /\ unit = "queue"
    /\ pcC = "break"
    /\ \E a, b \in DOMAIN rbOut : rbOut[a] < rbOut[b]
    /\ samplesDecoded < numSamples
    /\ samplesDecoded = Len(rbOut)
    /\ q_queue # <<>>
    /\ Head(q_queue).id = rbOut[Len(rbOut)]
    /\ StreamEndOfData(Head(q_queue))
    /\ ~StreamEndOfStream(Head(q_queue))

\* What bounds the iterations left in a readBuffer call: the samples still
\* wanted plus the streams still queued.
Variant == (numSamples - samplesDecoded) + Len(q_queue)

\* The read of the iteration delivered a sample, or the front stream had
\* none to deliver (it reports end-of-data or end-of-stream).
HonestRead == IterRead > 0 \/ StreamEndOfData(Head(q_queue))

\* readBuffer returns: the count is handed back and the mutex released, so
\* that a producer waiting at the lock can take it.
ReturnReleases ==
    (pcC # "idle" /\ pcC' = "idle") =>
        /\ q_mutex = "consumer"
        /\ q_mutex' = "free"
        /\ rbRet' = samplesDecoded
        /\ pcP = "checked" => CanLock'

\* C20 as stated: for streams that may deliver any count down to zero,
\* every loop iteration of readBuffer brings the call nearer to its return
\* (it never spins on a front stream that delivers nothing), and the
\* return releases the mutex.
C20_NeverSpins ==
    /\ [][IterStep => (Variant' < Variant \/ pcC' = "break")]_vars
    /\ [][ReturnReleases]_vars

\* C20, amended: while readBuffer runs it holds the mutex and the variant is
\* a natural number; every iteration whose read delivers a sample, or finds
\* the front stream at end-of-data or end-of-stream, decreases the variant
\* or leaves the loop; and the return releases the mutex.
C20_HonestReadsTerminate ==
    /\ []((unit \in QueueUnits /\ pcC # "idle") =>
             (Variant >= 0 /\ q_mutex = "consumer"))
    /\ [][(IterStep /\ HonestRead) =>
             (Variant' < Variant \/ pcC' = "break")]_vars
    /\ [][ReturnReleases]_vars

\* Streams may deliver any count: the call read a sample, found the front
\* stream starved and left the loop with a partial count, never having
\* spun, while a producer waits for the mutex.
C20_Witness ==
    /\ unit = "anyqueue"
    /\ pcC = "break"
    /\ ~rbSpin
    /\ 1 <= samplesDecoded
    /\ samplesDecoded < numSamples
    /\ q_queue # <<>>
    /\ StreamEndOfData(Head(q_queue))
    /\ pcP = "checked"
    /\ q_mutex = "consumer"

\* How often the queue deleted the stream with the given id.
TimesDestroyed(i) == Cardinality({a \in DOMAIN destroyed : destroyed[a] = i})

\* How often the stream with the given id was popped.
TimesPopped(i) == Cardinality({a \in DOMAIN popped : popped[a] = i})

\* C21: over the lifetime of the queue a stream enqueued with the dispose
\* flag is deleted exactly once, when it is popped (at end-of-stream in
\* readBuffer, all its samples delivered, or in the destructor, which
\* empties the queue); a stream enqueued without the flag is never deleted
\* by the queue; and the queue never calls into a stream it has popped.
C21_DisposedExactlyOnce ==
    unit = "lifetime" =>
        /\ Len(enqDispose) = pushed
        /\ \A i \in 1..pushed :
              /\ TimesPopped(i) <= 1
              /\ TimesDestroyed(i) <= 1
              /\ ~enqDispose[i] => TimesDestroyed(i) = 0
              /\ enqDispose[i] => (TimesDestroyed(i) = 1 <=> InPopped(i))
              /\ (InPopped(i) /\ ~q_destructed) => Delivered(i) = enq[i]
              /\ q_destructed => InPopped(i)
        /\ q_destructed => q_queue = <<>>
        /\ ~accessedPopped

\* The queue has been destroyed after two streams were enqueued with the
\* flag: readBuffer drained, popped and deleted the first, the destructor
\* deleted the second with samples still in it.
C21_Witness ==
    /\ unit = "lifetime"
    /\ q_destructed
    /\ enqDispose = <<TRUE, TRUE>>
    /\ destroyed = <<1, 2>>
    /\ enq[1] >= 1
    /\ Delivered(1) = enq[1]
    /\ Delivered(2) < enq[2]

\* ------------------------------------- properties of the looping stream
\* No rewind has failed or emptied the parent.
LoopRewindsFine == ~la_faulted

\* The parent stood at its first sample when the constructor returned, so
\* every pass, the first included, holds la_parent.len samples.
LoopFullPasses == LoopRewindsFine /\ la_startPos = 0

\* Samples the stream could still deliver when the last call began.
LoopBudgetBefore ==
    IF la_startPos = la_parent.len THEN 0
    ELSE IF la_N = 0 THEN la_lastReq
    ELSE la_N * la_parent.len - la_startPos - la_before

\* C5: with loops = N >= 1 over a parent of L samples per pass whose rewind
\* always succeeds, never more than N * L samples are delivered, every
\* read of a positive count before that total delivers something, and
\* endOfStream() is true exactly once N * L samples have been delivered.
C5_ExactlyNPasses ==
    (la_N >= 1 /\ LoopFullPasses) =>
        /\ la_total <= la_N * la_parent.len
        /\ LoopingEndOfStream <=> (la_total = la_N * la_parent.len)
        /\ (la_lastReq > 0 /\ la_before < la_N * la_parent.len) => la_lastRet > 0
        /\ la_parent.len > 0 =>
              la_total = la_completeIterations * la_parent.len
                           + (IF LoopingEndOfStream THEN 0 ELSE la_parent.pos)

\* Three passes over a two-sample parent were read one sample at a time.
C5_Witness ==
    /\ unit = "loop"
    /\ la_N = 3
    /\ la_parent.len = 2
    /\ LoopFullPasses
    /\ la_lastReq = 1
    /\ la_total = 6
    /\ LoopingEndOfStream

\* C6 as claimed: with loops = 0 and rewinds that always succeed,
\* endOfStream() is never true.
C6_NeverEnds ==
    (unit = "loop" /\ la_N = 0 /\ LoopRewindsFine) => ~LoopingEndOfStream

\* C6, amended: with loops = 0, rewinds that always succeed and a parent
\* that was not at end-of-stream when the constructor returned,
\* endOfStream() is never true.
C6_NeverEndsNonEmpty ==
    (unit = "loop" /\ la_N = 0 /\ LoopRewindsFine
       /\ la_startPos < la_parent.len) => ~LoopingEndOfStream

\* An endless loop has completed three passes and is still not at its end.
C6_Witness ==
    /\ unit = "loop"
    /\ la_N = 0
    /\ LoopRewindsFine
    /\ la_startPos < la_parent.len
    /\ la_completeIterations >= 3
    /\ la_lastRet > 0
    /\ ~LoopingEndOfStream

\* C7: a readBuffer(n) call returns min(n, samples left in the loop budget)
\* however many loop boundaries it spans; over a 100-sample parent with
\* loops = 3 a first read of 250 returns 250 and leaves endOfStream() false,
\* and a read of 50 after those 250 returns 50 and makes it true.
C7_ReadAcrossLoops ==
    (unit = "loop" /\ LoopRewindsFine) =>
        /\ la_lastRet = Min(la_lastReq, LoopBudgetBefore)
        /\ (la_parent.len = 100 /\ la_N = 3 /\ la_startPos = 0
              /\ la_lastReq = 250 /\ la_before = 0 /\ la_total > 0)
             => (la_lastRet = 250 /\ ~LoopingEndOfStream)
        /\ (la_parent.len = 100 /\ la_N = 3 /\ la_startPos = 0
              /\ la_lastReq = 50 /\ la_before = 250)
             => (la_lastRet = 50 /\ LoopingEndOfStream)

\* The documented scenario: one call of 250 over a 100-sample parent with
\* loops = 3 crossed two loop boundaries and stands 50 samples into pass 3.
C7_Witness ==
    /\ unit = "loop"
    /\ LoopRewindsFine
    /\ la_parent = [len |-> 100, pos |-> 50]
    /\ la_N = 3
    /\ la_before = 0
    /\ la_lastReq = 250
    /\ la_lastRet = 250
    /\ la_completeIterations = 2
    /\ la_depth = 3
    /\ ~LoopingEndOfStream

\* C14: when the parent's rewind fails inside readBuffer after a pass has
\* completed, the call returns the samples read up to the end of that pass,
\* the loop budget equals the passes completed so far, and from then on
\* endOfStream() is true and every readBuffer returns 0 and leaves the
\* parent as it was.
C14_FailedRewindStops ==
    (unit = "loop" /\ la_afterFail # "none") =>
        /\ ~la_aborted
        /\ la_loops = la_completeIterations
        /\ la_completeIterations >= 1
        /\ la_N = 0 \/ la_completeIterations < la_N
        /\ la_completeIterations * la_parent.len = la_startPos + la_total
        /\ LoopingEndOfStream
        /\ la_parent = la_parentAtFail
        /\ la_afterFail = "failing" =>
              /\ la_lastRet = la_total - la_before
              /\ 0 < la_lastRet /\ la_lastRet <= la_lastReq
        /\ la_afterFail = "later" => (la_lastRet = 0 /\ la_depth = 1)

\* An endless loop whose rewind failed after its second pass has since been
\* asked for samples and returned none.
C14_Witness ==
    /\ unit = "loop"
    /\ la_N = 0
    /\ la_ctor = "ok"
    /\ la_afterFail = "later"
    /\ la_completeIterations = 2
    /\ la_total = 2 * la_parent.len
    /\ la_lastReq > 0
    /\ la_lastRet = 0
    /\ LoopingEndOfStream

\* C15: a LoopingAudioStream whose initial rewind fails, or whose parent is
\* at end-of-stream when it is constructed, has for any requested loop count
\* (0 included) a loop count of 1 with one pass counted: endOfStream() is
\* true from construction on and every readBuffer returns 0.
C15_CtorCollapse ==
    (unit = "loop" /\ la_ctor # "ok") =>
        /\ ~la_aborted
        /\ la_loops = 1
        /\ la_completeIterations = 1
        /\ LoopingEndOfStream
        /\ la_total = 0
        /\ la_lastRet = 0
        /\ la_parent.pos = la_startPos

\* An endless loop built over a parent already at its end was asked for
\* samples and returned none.
C15_Witness ==
    /\ unit = "loop"
    /\ la_ctor = "atEnd"
    /\ la_N = 0
    /\ la_depth = 1
    /\ la_lastReq > 0
    /\ la_lastRet = 0
    /\ LoopingEndOfStream

\* C19: every LoopingAudioStream::readBuffer(n) call returns, for every loop
\* count (0 included) and every finite parent, also one that is empty or
\* found empty after a rewind: every activation but the last delivers at
\* least one sample, so a call nests at most n continuations and one
\* closing activation.
C19_ReadTerminates ==
    unit = "loop" =>
        /\ ~la_diverged
        /\ la_depth - 1 <= la_lastRet
        /\ la_lastRet <= la_lastReq
        /\ la_depth - 1 <= la_lastReq + 1

\* A call for three samples over an endlessly looped one-sample parent
\* nested three continuations, each delivering one sample, and a closing one.
C19_Witness ==
    /\ unit = "loop"
    /\ la_N = 0
    /\ la_parent.len = 1
    /\ la_lastReq = 3
    /\ la_lastRet = 3
    /\ la_depth = 4
    /\ ~la_diverged

\* --------------------------------- properties of the sub-looping stream
\* The parent samples delivered by the last call, after the one before them.
SubLoopDelivered ==
    (IF sla_prevLast >= 0 THEN <<sla_prevLast>> ELSE <<>>) \o sla_src

\* Consecutive samples are consecutive in the parent, except that the
\* sample before _loopEnd is followed by the one at _loopStart; the very
\* first sample is the parent's first.
SubLoopWrapsToLoopStart ==
    /\ \A i \in 1..(Len(SubLoopDelivered) - 1) :
          \/ SubLoopDelivered[i + 1] = SubLoopDelivered[i] + 1
          \/ /\ SubLoopDelivered[i] = sla_loopEnd - 1
             /\ SubLoopDelivered[i + 1] = sla_loopStart
    /\ \A i \in 1..Len(SubLoopDelivered) : SubLoopDelivered[i] < sla_loopEnd
    /\ (sla_prevLast = -1 /\ sla_src # <<>>) => sla_src[1] = 0

\* C8 as claimed: the tracked position is within [loopStart, loopEnd) from
\* construction onward.
C8_PosWithinLoop ==
    (unit = "subloop" /\ sla_loopStart < sla_loopEnd /\ ~sla_faulted) =>
        (sla_loopStart <= sla_pos /\ sla_pos < sla_loopEnd)

\* C8, amended: the tracked position starts at 0 and stays within
\* [0, loopEnd]; it is at least loopStart once the stream has wrapped and
\* below loopEnd while endOfStream() is false; on reaching loopEnd with loop
\* budget left the parent is sought to loopStart, where the next samples
\* come from.
C8_PosWithinZeroAndLoopEnd ==
    unit = "subloop" =>
        /\ 0 <= sla_pos /\ sla_pos <= sla_loopEnd
        /\ sla_wrapped => sla_loopStart <= sla_pos
        /\ (sla_loopStart < sla_loopEnd /\ ~SubLoopingEndOfStream)
              => sla_pos < sla_loopEnd
        /\ ~sla_faulted => sla_parent.pos = sla_pos
        /\ SubLoopWrapsToLoopStart

\* A call ran from below a loop start that is not the parent's start up to
\* the loop end, wrapped, and went on delivering from the loop start.
C8_Witness ==
    /\ unit = "subloop"
    /\ sla_wrapped
    /\ ~SubLoopingEndOfStream
    /\ 0 < sla_loopStart
    /\ sla_lastRet = Len(sla_src)
    /\ \E i \in 1..(Len(sla_src) - 1) :
          /\ sla_src[i] = sla_loopEnd - 1
          /\ sla_src[i + 1] = sla_loopStart
    /\ \E i \in 1..Len(sla_src) : sla_src[i] < sla_loopStart

\* C16: when the parent of a SubLoopingAudioStream ends before loopEnd and
\* so delivers fewer samples than asked for, readBuffer returns the samples
\* it obtained and the stream stops looping whatever its loop count (0
\* included): endOfStream() is true and every later readBuffer returns 0.
\* A failed seek to loopStart likewise returns the samples read up to
\* loopEnd and makes endOfStream() true.
C16_StopsOnParentFailure ==
    (unit = "subloop" /\ sla_cause \in {"premature", "seek"}) =>
        /\ ~sla_aborted
        /\ ~sla_diverged
        /\ sla_loops = sla_completeIterations
        /\ sla_completeIterations >= 1
        /\ SubLoopingEndOfStream
        /\ sla_afterFault = "failing" =>
              /\ sla_lastRet = Len(sla_src)
              /\ sla_lastRet <= sla_lastReq
              /\ sla_cause = "premature" =>
                    /\ sla_lastRet < sla_lastReq
                    /\ sla_pos < sla_loopEnd
                    /\ ParentEndOfStream(sla_parent)
              /\ sla_cause = "seek" => sla_pos = sla_loopEnd
        /\ sla_afterFault = "later" => (sla_lastRet = 0 /\ sla_src = <<>>)

\* An endless sub-loop whose parent ended before loopEnd returned the
\* samples the parent had and has since been asked again, returning none.
C16_Witness ==
    /\ unit = "subloop"
    /\ sla_cause = "premature"
    /\ sla_afterFault = "later"
    /\ sla_pos > 0
    /\ sla_lastReq > 0
    /\ sla_lastRet = 0
    /\ sla_loops = 1
    /\ SubLoopingEndOfStream

\* ----------------------------------- properties of the sub-range stream
\* C9: after any readBuffer and seek calls 0 <= pos <= length; a
\* readBuffer(n) asks the parent for at most min(n, length - pos) samples
\* and returns no more than it asked for; and the samples delivered since
\* construction or the last seek never exceed length = end - start.
C9_NeverPastLength ==
    unit = "subseek" =>
        /\ 0 <= ssa_pos /\ ssa_pos <= ssa_length
        /\ 0 <= ssa_lastAsk
        /\ ssa_lastAsk <= Min(ssa_lastReq, ssa_length - ssa_posBefore)
        /\ 0 <= ssa_lastRet /\ ssa_lastRet <= ssa_lastAsk
        /\ ssa_sinceSeek <= ssa_length

\* After a successful seek, a read asking for more than the range still
\* holds was cut at the end of the range although the parent had more.
C9_Witness ==
    /\ unit = "subseek"
    /\ ssa_seekRet = "none"
    /\ ssa_pos = ssa_length
    /\ 0 < ssa_posBefore
    /\ ssa_sinceSeek < ssa_length
    /\ ssa_lastAsk < ssa_lastReq
    /\ ssa_lastRet = ssa_lastAsk
    /\ 0 < ssa_lastRet
    /\ ssa_parent.pos < ssa_parent.len

\* C17: SubSeekableAudioStream::seek(t) returns false and leaves pos ==
\* length both when the converted t lies beyond length, the parent then not
\* being sought, and when the parent's seek to start + t fails, so that the
\* next readBuffer asks the parent for no sample and returns 0; otherwise
\* it seeks the parent to start + t, sets pos to t and returns true.
C17_SeekFailurePinsAtEnd ==
    unit = "subseek" =>
        /\ ssa_seekRet # "none" =>
              /\ ssa_seekPos > ssa_length =>
                    /\ ssa_seekRet = "false"
                    /\ ssa_pos = ssa_length
                    /\ ssa_parentSeek = "none"
                    /\ ssa_parent = ssa_parentBefore
              /\ ssa_seekPos <= ssa_length =>
                    /\ ssa_parentSeek # "none"
                    /\ ssa_parentSeek = "failed" =>
                          (ssa_seekRet = "false" /\ ssa_pos = ssa_length)
                    /\ ssa_parentSeek = "ok" =>
                          /\ ssa_seekRet = "true"
                          /\ ssa_pos = ssa_seekPos
                          /\ ssa_parent.pos = ssa_start + ssa_seekPos
        /\ (ssa_seekRet = "none" /\ ssa_prevSeekRet = "false") =>
              (ssa_lastAsk = 0 /\ ssa_lastRet = 0 /\ ssa_pos = ssa_length)

\* A seek into the range failed in the parent; the read that followed asked
\* for samples, requested none from the parent, which had some, and
\* returned 0.
C17_Witness ==
    /\ unit = "subseek"
    /\ ssa_prevSeekRet = "false"
    /\ ssa_seekRet = "none"
    /\ ssa_parentSeek = "failed"
    /\ ssa_seekPos < ssa_length
    /\ ssa_lastReq > 0
    /\ ssa_lastAsk = 0
    /\ ssa_lastRet = 0
    /\ ssa_parent.pos < ssa_parent.len

\* --------------------------------- properties of the limiting stream
\* C10: the samples delivered never exceed _totalSamples, every request to
\* the parent is capped at what is left under the limit, and endOfStream()
\* is true exactly when the parent is at its end or the limit is reached,
\* hence no later than the parent's own end.
C10_NeverPastLimit ==
    unit = "limit" =>
        /\ lim_delivered <= lim_totalSamples
        /\ lim_samplesRead = lim_delivered
        /\ lim_lastAsk <= lim_totalSamples - (lim_delivered - lim_lastRet)
        /\ lim_lastAsk <= lim_lastReq
        /\ LimitingEndOfStream <=>
              (lim_parent.pos = lim_parent.len \/ lim_delivered >= lim_totalSamples)
        /\ lim_parent.pos = lim_parent.len => LimitingEndOfStream

\* A read asking for more than the limit leaves was capped, the limit is
\* reached and the stream is at its end while the parent still has samples.
C10_Witness ==
    /\ unit = "limit"
    /\ 0 < lim_totalSamples
    /\ lim_delivered = lim_totalSamples
    /\ lim_lastAsk < lim_lastReq
    /\ lim_lastRet = lim_lastAsk
    /\ lim_parent.pos < lim_parent.len
    /\ LimitingEndOfStream

\* ------------------------------- properties of the time conversion
\* The interleaved samples the time of the last call spans at the rate of
\* the last call, whole ones only.
ConvertedCount ==
    (cv_where * cv_rate * Channels(cv_isStereo)) \div 1000

\* C12: for a stereo stream convertTimeToStreamPos returns an even count of
\* interleaved samples, the converted count cut by one when it is odd and
\* never raised; for a mono stream it returns the whole frames of the
\* converted time; in both cases the result holds no part of a frame.
C12_EvenAndWhole ==
    (unit = "convert" /\ cv_where >= 0) =>
        /\ TsSubFrame(cv_result) = 0
        /\ cv_result.framerate = cv_rate * Channels(cv_isStereo)
        /\ cv_isStereo =>
              /\ TsTotalNumberOfFrames(cv_result) % 2 = 0
              /\ TsTotalNumberOfFrames(cv_result)
                    = ConvertedCount - (ConvertedCount % 2)
        /\ ~cv_isStereo => TsTotalNumberOfFrames(cv_result) = ConvertedCount

\* A stereo conversion met an odd count with a part of a frame beyond it and
\* returned the even count below.
C12_Witness ==
    /\ unit = "convert"
    /\ cv_isStereo
    /\ ConvertedCount % 2 = 1
    /\ (cv_where * cv_rate * 2) % 1000 # 0
    /\ TsTotalNumberOfFrames(cv_result) = ConvertedCount - 1
    /\ TsSubFrame(cv_result) = 0

====
